---- MODULE Spec2Model ----
(***************************************************************************)
(* Model of src/course.rs: the timetable parser Course::parse_from_table   *)
(* and its field parsers parse_exam, parse_period, parse_weeks.            *)
(*                                                                         *)
(* Text is modelled as a sequence of one-character strings, so that        *)
(* splitting, trimming and the regular expressions are computed on the     *)
(* characters, as the code does.                                           *)
(***************************************************************************)
EXTENDS Integers, Sequences, FiniteSets, TLC

\* ------------------------------------------------------------------------
\* Bounds of the model
\* ------------------------------------------------------------------------

\* largest number of complete rows of an input table
MaxRows == 3

\* largest number of comma-separated tokens of a week list
MaxTokens == 2

\* largest one-digit week number of a week list
MaxWeek == 3

\* ------------------------------------------------------------------------
\* Program constants
\* ------------------------------------------------------------------------

NUM_COLUMNS == 16

\* ------------------------------------------------------------------------
\* Characters and character classes
\* ------------------------------------------------------------------------

TAB == "\t"
NL == "\n"

\* a decimal digit outside ASCII (ARABIC-INDIC DIGIT THREE), one character
ArabicThree == "U+0663"

AsciiDigits == <<"0", "1", "2", "3", "4", "5", "6", "7", "8", "9">>

UpperLetters == <<"A", "B", "C", "D", "E", "F", "G", "H", "I", "J", "K", "L", "M",
                  "N", "O", "P", "Q", "R", "S", "T", "U", "V", "W", "X", "Y", "Z">>

LowerLetters == <<"a", "b", "c", "d", "e", "f", "g", "h", "i", "j", "k", "l", "m",
                  "n", "o", "p", "q", "r", "s", "t", "u", "v", "w", "x", "y", "z">>

Range(s) == {s[k] : k \in DOMAIN s}

\* the class [0-9]
IsAsciiDigit(c) == c \in Range(AsciiDigits)

\* the class \d of the regex crate: any Unicode decimal digit
IsDigit(c) == IsAsciiDigit(c) \/ c = ArabicThree

\* the class [A-Z]
IsUpper(c) == c \in Range(UpperLetters)

\* the class [a-z]
IsLower(c) == c \in Range(LowerLetters)

\* char::is_whitespace, on the characters of the model
IsWhitespace(c) == c \in {" ", TAB, NL, "\r"}

\* the value of an ASCII digit
DigitVal(c) == (CHOOSE k \in DOMAIN AsciiDigits : AsciiDigits[k] = c) - 1

ToLowerChar(c) ==
    IF IsUpper(c)
    THEN LowerLetters[CHOOSE k \in DOMAIN UpperLetters : UpperLetters[k] = c]
    ELSE c

ToLower(s) == [k \in DOMAIN s |-> ToLowerChar(s[k])]

\* ------------------------------------------------------------------------
\* String operations of the standard library
\* ------------------------------------------------------------------------

\* str::replace('\n', "")
RemoveNewlines(s) == SelectSeq(s, LAMBDA c : c # NL)

\* str::split(sep), collected: the pieces between the separators, in order
RECURSIVE SplitFrom(_, _, _)
SplitFrom(s, sep, k) ==
    IF \A m \in k..Len(s) : s[m] # sep THEN <<SubSeq(s, k, Len(s))>>
    ELSE LET p == CHOOSE m \in k..Len(s) :
                      s[m] = sep /\ \A n \in k..(m - 1) : s[n] # sep
         IN  <<SubSeq(s, k, p - 1)>> \o SplitFrom(s, sep, p + 1)

Split(s, sep) == SplitFrom(s, sep, 1)

\* str::trim
Trim(s) ==
    LET keep == {k \in DOMAIN s : ~IsWhitespace(s[k])}
    IN  IF keep = {} THEN <<>>
        ELSE LET lo == CHOOSE k \in keep : \A m \in keep : k <= m
                 hi == CHOOSE k \in keep : \A m \in keep : k >= m
             IN  SubSeq(s, lo, hi)

\* the text p occurs in s at position k
OccursAt(s, p, k) ==
    /\ k >= 1
    /\ k + Len(p) - 1 <= Len(s)
    /\ \A m \in 1..Len(p) : s[k + m - 1] = p[m]

\* str::parse::<u32>: an optional '+' and one or more ASCII digits
IsU32Text(s) ==
    LET d == IF Len(s) > 0 /\ s[1] = "+" THEN Tail(s) ELSE s
    IN  Len(d) > 0 /\ \A k \in DOMAIN d : IsAsciiDigit(d[k])

RECURSIVE DigitsValue(_, _)
DigitsValue(d, acc) ==
    IF d = <<>> THEN acc ELSE DigitsValue(Tail(d), 10 * acc + DigitVal(Head(d)))

ParseU32(s) ==
    DigitsValue(IF s[1] = "+" THEN Tail(s) ELSE s, 0)

\* ------------------------------------------------------------------------
\* Results
\* ------------------------------------------------------------------------

None == <<>>
Some(x) == <<x>>

Ok(v) == [tag |-> "Ok", val |-> <<v>>, err |-> ""]
Err(e) == [tag |-> "Err", val |-> <<>>, err |-> e]
\* an unwrap() of an Err: the call does not return
Panic == [tag |-> "Panic", val |-> <<>>, err |-> "panic"]

IsOk(r) == r.tag = "Ok"
Unwrap(r) == r.val[1]

\* ------------------------------------------------------------------------
\* Data model
\* ------------------------------------------------------------------------

Time(h, m) == [hour |-> h, minute |-> m]

Period(sh, sm, eh, em) == [start |-> Time(sh, sm), end |-> Time(eh, em)]

\* the value of the two ASCII digits of s at positions k and k + 1
TwoDigits(s, k) == 10 * DigitVal(s[k]) + DigitVal(s[k + 1])

\* ------------------------------------------------------------------------
\* Library lookups: chrono::Weekday and chrono::Month from_str
\* (a short or a long name, compared without regard to case)
\* ------------------------------------------------------------------------

ShortWeekdays == << <<"m","o","n">>, <<"t","u","e">>, <<"w","e","d">>, <<"t","h","u">>,
                    <<"f","r","i">>, <<"s","a","t">>, <<"s","u","n">> >>

WeekdaySuffixes == << <<"d","a","y">>, <<"s","d","a","y">>, <<"n","e","s","d","a","y">>,
                      <<"r","s","d","a","y">>, <<"d","a","y">>, <<"u","r","d","a","y">>,
                      <<"d","a","y">> >>

WeekdayNames == <<"Mon", "Tue", "Wed", "Thu", "Fri", "Sat", "Sun">>

ParseWeekday(s) ==
    LET l == ToLower(s)
        hits == {k \in DOMAIN ShortWeekdays :
                    l = ShortWeekdays[k] \/ l = ShortWeekdays[k] \o WeekdaySuffixes[k]}
    IN  IF hits = {} THEN Err("ParseWeekdayError")
        ELSE Ok(WeekdayNames[CHOOSE k \in hits : TRUE])

ShortMonths == << <<"j","a","n">>, <<"f","e","b">>, <<"m","a","r">>, <<"a","p","r">>,
                  <<"m","a","y">>, <<"j","u","n">>, <<"j","u","l">>, <<"a","u","g">>,
                  <<"s","e","p">>, <<"o","c","t">>, <<"n","o","v">>, <<"d","e","c">> >>

MonthNames == <<"January", "February", "March", "April", "May", "June", "July",
                "August", "September", "October", "November", "December">>

\* the month of a three-letter text
ParseMonth(s) ==
    LET l == ToLower(s)
        hits == {k \in DOMAIN ShortMonths : l = ShortMonths[k]}
    IN  IF hits = {} THEN Err("ParseMonthError")
        ELSE Ok(MonthNames[CHOOSE k \in hits : TRUE])

\* ------------------------------------------------------------------------
\* parse_period
\* ------------------------------------------------------------------------

\* the regex ^(\d\d)(\d\d)to(\d\d)(\d\d)$
PeriodMatches(s) ==
    /\ Len(s) = 10
    /\ \A k \in {1, 2, 3, 4, 7, 8, 9, 10} : IsDigit(s[k])
    /\ s[5] = "t"
    /\ s[6] = "o"

parse_period(period) ==
    IF ~PeriodMatches(period) THEN Err("ParsePeriodError")
    ELSE IF \E k \in {1, 2, 3, 4, 7, 8, 9, 10} : ~IsAsciiDigit(period[k]) THEN Panic
    ELSE Ok(Period(TwoDigits(period, 1), TwoDigits(period, 3),
                   TwoDigits(period, 7), TwoDigits(period, 9)))

\* ------------------------------------------------------------------------
\* parse_exam
\* ------------------------------------------------------------------------

\* length of a match of the exam pattern
ExamPatternLen == 26

\* the regex of parse_exam matches the text of s that starts at position k:
\* /(\d{2})-([A-Z][a-z]{2})-([0-9]{4}) (\d{2})(\d{2})to(\d{2})(\d{2})/gm
\* where the slashes and the letters g and m are literal characters
ExamMatchesAt(s, k) ==
    /\ k >= 1
    /\ k + ExamPatternLen - 1 <= Len(s)
    /\ s[k] = "/"
    /\ IsDigit(s[k + 1]) /\ IsDigit(s[k + 2])
    /\ s[k + 3] = "-"
    /\ IsUpper(s[k + 4]) /\ IsLower(s[k + 5]) /\ IsLower(s[k + 6])
    /\ s[k + 7] = "-"
    /\ \A m \in 8..11 : IsAsciiDigit(s[k + m])
    /\ s[k + 12] = " "
    /\ \A m \in 13..16 : IsDigit(s[k + m])
    /\ s[k + 17] = "t"
    /\ s[k + 18] = "o"
    /\ \A m \in 19..22 : IsDigit(s[k + m])
    /\ s[k + 23] = "/"
    /\ s[k + 24] = "g"
    /\ s[k + 25] = "m"

Exam(d, mo, y, p) == [day |-> d, month |-> mo, year |-> y, peroid |-> p]

parse_exam(exam_text) ==
    LET hits == {k \in 1..Len(exam_text) : ExamMatchesAt(exam_text, k)}
    IN  IF hits = {} THEN Err("ParseExamError")
        ELSE
          LET k == CHOOSE h \in hits : \A g \in hits : h <= g
              month == ParseMonth(SubSeq(exam_text, k + 4, k + 6))
          IN  IF ~IsOk(month) THEN Err("ParseExamError")
              ELSE IF \E m \in {1, 2} \cup (13..16) \cup (19..22) :
                          ~IsAsciiDigit(exam_text[k + m])
                   THEN Panic
              ELSE Ok(Exam(TwoDigits(exam_text, k + 1),
                           Unwrap(month),
                           100 * TwoDigits(exam_text, k + 8) + TwoDigits(exam_text, k + 10),
                           Period(TwoDigits(exam_text, k + 13), TwoDigits(exam_text, k + 15),
                                  TwoDigits(exam_text, k + 19), TwoDigits(exam_text, k + 21))))

\* ------------------------------------------------------------------------
\* parse_weeks
\* ------------------------------------------------------------------------

Marker == <<"T", "e", "a", "c", "h", "i", "n", "g", " ", "W", "k">>

\* group 1 of the regex Teaching Wk(.*) for the match at position k: the
\* text after the marker up to the end of the line
WeeksCapture(s, k) ==
    LET from == k + Len(Marker)
        nls == {m \in from..Len(s) : s[m] = NL}
        to == IF nls = {} THEN Len(s)
              ELSE (CHOOSE m \in nls : \A n \in nls : m <= n) - 1
    IN  SubSeq(s, from, to)

\* the regex ^([0-9]+)-([0-9]+)$
IsRangeText(x) ==
    \E p \in 2..(Len(x) - 1) :
        /\ x[p] = "-"
        /\ \A k \in (1..Len(x)) \ {p} : IsAsciiDigit(x[k])

DashPos(x) == CHOOSE p \in 1..Len(x) : x[p] = "-"

\* (start..end + 1).collect(), exclusive of end + 1
ExpandRangeExclusive(start, end) == [k \in 1..(end - start) |-> start + k - 1]

ExpandRange(start, end) == [k \in 1..(end + 1 - start) |-> start + k - 1]

\* the body of the loop over the tokens of the week list
WeeksOfToken(x) ==
    IF IsRangeText(x)
    THEN Ok(ExpandRange(ParseU32(SubSeq(x, 1, DashPos(x) - 1)),
                        ParseU32(SubSeq(x, DashPos(x) + 1, Len(x)))))
    ELSE IF IsU32Text(x) THEN Ok(<<ParseU32(x)>>)
    ELSE Panic

RECURSIVE WeeksOfTokens(_, _)
WeeksOfTokens(toks, weeks) ==
    IF toks = <<>> THEN Ok(weeks)
    ELSE LET w == WeeksOfToken(Head(toks))
         IN  IF ~IsOk(w) THEN Panic
             ELSE WeeksOfTokens(Tail(toks), weeks \o Unwrap(w))

parse_weeks(weeks_text) ==
    LET hits == {k \in 1..Len(weeks_text) : OccursAt(weeks_text, Marker, k)}
    IN  IF hits = {} THEN Err("ParseWeeksError")
        ELSE LET k == CHOOSE h \in hits : \A g \in hits : h <= g
             IN  WeeksOfTokens(Split(WeeksCapture(weeks_text, k), ","), <<>>)

\* ------------------------------------------------------------------------
\* Course::new
\* ------------------------------------------------------------------------

Course(code, title, au, course_type, index, status, classes, exam) ==
    [code |-> code, title |-> title, au |-> au, course_type |-> course_type,
     index |-> index, status |-> status, classes |-> classes, exam |-> exam]

\* Course::new without the check of the index field
Course_new_unchecked_index(code, title, au, course_type, index, status) ==
    IF code = <<>> \/ title = <<>> \/ au = <<>> \/ course_type = <<>> \/ status = <<>>
    THEN Err("ParseCourseError")
    ELSE Ok(Course(code, title, au, course_type, index, status, <<>>, None))

Course_new(code, title, au, course_type, index, status) ==
    IF code = <<>> \/ title = <<>> \/ au = <<>> \/ course_type = <<>>
       \/ index = <<>> \/ status = <<>>
    THEN Err("ParseCourseError")
    ELSE Ok(Course(code, title, au, course_type, index, status, <<>>, None))

\* ------------------------------------------------------------------------
\* Course::parse_from_table: the windows and the body of the loop
\* ------------------------------------------------------------------------

Min(a, b) == IF a <= b THEN a ELSE b

\* the columns of a row are numbered from 0
Col(row, c) == row[c + 1]

\* the iterator has a window number k (from 0)
HasChunk(toks, k) == k * NUM_COLUMNS < Len(toks)

\* a chunking that pads the last window with empty tokens
ChunkPadded(toks, k) ==
    [c \in 1..NUM_COLUMNS |->
        IF k * NUM_COLUMNS + c <= Len(toks) THEN Trim(toks[k * NUM_COLUMNS + c]) ELSE <<>>]

\* window number k of chunks(NUM_COLUMNS), its items trimmed
Chunk(toks, k) ==
    LET w == SubSeq(toks, k * NUM_COLUMNS + 1, Min((k + 1) * NUM_COLUMNS, Len(toks)))
    IN  [c \in DOMAIN w |-> Trim(w[c])]

\* the outcome of the call, or of the loop so far
Running == [kind |-> "Running", line |-> 0, expected |-> 0, found |-> 0, class |-> <<>>]
Returned(kind) == [Running EXCEPT !.kind = kind]

\* the message of the MissingValues error, by its format string and arguments:
\* "Missing columns from table on line {}, expected {}, found {}", i, row.len(), NUM_COLUMNS
MissingValues(k, row) ==
    [kind |-> "MissingValues", line |-> k, expected |-> Len(row),
     found |-> NUM_COLUMNS, class |-> <<>>]

UnknownCourse(class) == [Returned("UnknownCourse") EXCEPT !.class = <<class>>]

Step(cs, res) == [courses |-> cs, result |-> res]

\* lines 84-93: a new course if the row has the six fields
HeaderStep(cs, row) ==
    LET c == Course_new(Col(row, 0), Col(row, 1), Col(row, 2), Col(row, 3),
                        Col(row, 6), Col(row, 7))
    IN  IF IsOk(c) THEN Append(cs, Unwrap(c)) ELSE cs

\* current_course.exam = Some(exam), on the first course
SetExamFirst(cs, exam) == [cs EXCEPT ![1].exam = Some(exam)]

\* current_course.exam = Some(exam), where current_course is courses.last_mut()
SetExam(cs, exam) == [cs EXCEPT ![Len(cs)].exam = Some(exam)]

\* the exam step with: if let Ok(exam) = parse_exam(row[14])
ExamStepLenient(cs, row) ==
    IF Col(row, 14) # <<>> /\ cs # <<>>
    THEN LET e == parse_exam(Col(row, 14))
         IN  IF IsOk(e) THEN Step(SetExam(cs, Unwrap(e)), Running)
             ELSE Step(cs, Running)
    ELSE Step(cs, Running)

\* lines 95-101: the exam information of the row
ExamStep(cs, row) ==
    IF Col(row, 14) # <<>> /\ cs # <<>>
    THEN LET e == parse_exam(Col(row, 14))
         IN  IF IsOk(e) THEN Step(SetExam(cs, Unwrap(e)), Running)
             ELSE IF e.tag = "Panic" THEN Step(cs, Returned("Panic"))
             ELSE Step(cs, Returned("Other"))
    ELSE Step(cs, Running)

Class(weekday, period, venue, group, weeks, class_type) ==
    [weekday |-> weekday, period |-> period, venue |-> venue, group |-> group,
     weeks |-> weeks, class_type |-> class_type]

\* the end of the loop body without its else branch: the class is dropped
PushClassOrDrop(cs, class) ==
    IF cs # <<>>
    THEN Step([cs EXCEPT ![Len(cs)].classes = Append(@, class)], Running)
    ELSE Step(cs, Running)

\* lines 124-131: the class goes to the last course
PushClass(cs, class) ==
    IF cs # <<>>
    THEN Step([cs EXCEPT ![Len(cs)].classes = Append(@, class)], Running)
    ELSE Step(cs, UnknownCourse(class))

\* lines 103-131: the class of the row
ClassStep(cs, row) ==
    IF Col(row, 9) = <<>> THEN Step(cs, Running)
    ELSE
      LET weekday == ParseWeekday(Col(row, 11))
          period == parse_period(Col(row, 12))
          weeks == parse_weeks(Col(row, 14))
      IN  IF ~IsOk(weekday) THEN Step(cs, Returned("Other"))
          ELSE IF period.tag = "Panic" THEN Step(cs, Returned("Panic"))
          ELSE IF ~IsOk(period) THEN Step(cs, Returned("Other"))
          ELSE IF weeks.tag = "Panic" THEN Step(cs, Returned("Panic"))
          ELSE IF ~IsOk(weeks) THEN Step(cs, Returned("Other"))
          ELSE PushClass(cs, Class(Unwrap(weekday), Unwrap(period), Col(row, 13),
                                   Col(row, 10), Unwrap(weeks), Col(row, 9)))

\* lines 70-131: one iteration of the loop, on window number k
LoopBody(cs, k, row) ==
    IF Len(row) # NUM_COLUMNS THEN Step(cs, MissingValues(k, row))
    ELSE
      LET e == ExamStep(HeaderStep(cs, row), row)
      IN  IF e.result # Running THEN e
          ELSE ClassStep(e.courses, row)

\* ------------------------------------------------------------------------
\* State
\* ------------------------------------------------------------------------

VARIABLES
    pc,         \* position of the call: "start", "loop", "exam", "weeks", "done"
    table,      \* the argument of parse_from_table
    tokens,     \* table.replace('\n', "").split('\t')
    i,          \* number of the next window of the loop (from 0)
    courses,    \* the vector courses
    result,     \* outcome of parse_from_table; Ok returns courses
    exam_raw,   \* the argument of parse_exam
    exam_out,   \* what parse_exam returned
    weeks_src,  \* the prefix, marker and tokens weeks_raw was written from
    weeks_raw,  \* the argument of parse_weeks
    weeks_out   \* what parse_weeks returned

vars == <<pc, table, tokens, i, courses, result, exam_raw, exam_out,
          weeks_src, weeks_raw, weeks_out>>

NotCalled == [tag |-> "NotCalled", val |-> <<>>, err |-> ""]

NoWeeksSrc == [prefix |-> <<>>, marker |-> <<>>, toks |-> <<>>]

\* ------------------------------------------------------------------------
\* Input texts
\* ------------------------------------------------------------------------

\* the concatenation of the texts of a sequence, sep between two of them
RECURSIVE Join(_, _)
Join(texts, sep) ==
    IF texts = <<>> THEN <<>>
    ELSE IF Len(texts) = 1 THEN texts[1]
    ELSE texts[1] \o sep \o Join(Tail(texts), sep)

ExamTextOf(day, mon, year, from, to, suffix) ==
    <<"/">> \o day \o <<"-">> \o mon \o <<"-">> \o year \o <<" ">> \o from
            \o <<"t", "o">> \o to \o suffix

\* /15-Nov-2023 0900to1100/gm
ExamText1 ==
    ExamTextOf(<<"1", "5">>, <<"N", "o", "v">>, <<"2", "0", "2", "3">>,
               <<"0", "9", "0", "0">>, <<"1", "1", "0", "0">>, <<"/", "g", "m">>)

\* /02-May-2024 1330to1545/gm
ExamText2 ==
    ExamTextOf(<<"0", "2">>, <<"M", "a", "y">>, <<"2", "0", "2", "4">>,
               <<"1", "3", "3", "0">>, <<"1", "5", "4", "5">>, <<"/", "g", "m">>)

\* Teaching Wk1-2,3
WeeksText1 == Marker \o <<"1", "-", "2", ",", "3">>

\* Teaching Wk3
WeeksText2 == Marker \o <<"3">>

\* Teaching Wkx
WeeksTextBad == Marker \o <<"x">>

NoHeader == <<<<>>, <<>>, <<>>, <<>>, <<>>, <<>>>>
HeaderA == <<<<"A">>, <<" ", "T", " ">>, <<"3">>, <<"C">>, <<"1">>, <<"R">>>>
HeaderB == <<<<"B">>, <<"T">>, <<"3">>, <<"C">>, <<"2">>, <<"R">>>>
\* the index is blank
HeaderPartial == <<<<"A">>, <<"T">>, <<"3">>, <<"C">>, <<" ">>, <<"R">>>>

NoClass == <<<<>>, <<>>, <<>>, <<>>, <<>>>>
\* class type, group, weekday, period, venue
ClassLec == <<<<"L">>, <<"G">>, <<"M", "O", "N">>,
              <<"0", "9", "0", "0", "t", "o", "1", "1", "0", "0">>, <<"V">>>>
ClassTut == <<<<"U">>, <<"H">>, <<"F", "r", "i", "d", "a", "y">>,
              <<"1", "4", "3", "0", "t", "o", "1", "5", "3", "0">>, <<"W">>>>
ClassBadDay == <<<<"L">>, <<"G">>, <<"X", "X">>,
                 <<"0", "9", "0", "0", "t", "o", "1", "1", "0", "0">>, <<"V">>>>
ClassBadPeriod == <<<<"L">>, <<"G">>, <<"M", "O", "N">>,
                    <<"9", "t", "o", "1", "1">>, <<"V">>>>

\* the 16 tokens of a row, from its header fields, class fields and column 14
RowOf(hdr, cls, c14) ==
    <<hdr[1], hdr[2], hdr[3], hdr[4], <<>>, <<>>, hdr[5], hdr[6], <<>>,
      cls[1], cls[2], cls[3], cls[4], cls[5], c14, <<>>>>

RowKinds ==
    { RowOf(HeaderA, NoClass, <<>>),
      RowOf(HeaderB, NoClass, ExamText1),
      RowOf(HeaderPartial, NoClass, <<>>),
      RowOf(NoHeader, NoClass, ExamText2),
      RowOf(NoHeader, ClassLec, WeeksText1),
      RowOf(NoHeader, ClassLec, ExamText1 \o WeeksText1),
      RowOf(NoHeader, ClassTut, ExamText2 \o WeeksText2),
      RowOf(NoHeader, ClassBadDay, WeeksText1),
      RowOf(NoHeader, ClassBadPeriod, WeeksText1),
      RowOf(NoHeader, ClassLec, ExamText1 \o WeeksTextBad),
      RowOf(HeaderA, ClassLec, ExamText1 \o WeeksText1) }

\* the tokens after the last complete row: none, or the first eight columns
\* of a header row
Tails == { <<>>, SubSeq(RowOf(HeaderB, NoClass, <<>>), 1, 8) }

SeqsUpTo(S, n) == UNION {[1..m -> S] : m \in 0..n}

\* the text of a table: the tokens of its rows and of its tail, a tab between
\* two tokens and a newline after the tab that ends a row
TableText(rows, tail) ==
    Join([r \in DOMAIN rows |-> Join(rows[r], <<TAB>>)]
            \o (IF tail = <<>> THEN <<>> ELSE <<Join(tail, <<TAB>>)>>),
         <<TAB, NL>>)

Tables == {TableText(rows, tail) : rows \in SeqsUpTo(RowKinds, MaxRows), tail \in Tails}

\* ------------------------------------------------------------------------
\* parse_from_table as a state machine
\* ------------------------------------------------------------------------

Init ==
    /\ pc = "start"
    /\ table \in Tables
    /\ tokens = <<>>
    /\ i = 0
    /\ courses = <<>>
    /\ result = Running
    /\ exam_raw = <<>>
    /\ exam_out = NotCalled
    /\ weeks_src = NoWeeksSrc
    /\ weeks_raw = <<>>
    /\ weeks_out = NotCalled

\* lines 68-69: the empty vector and the iterator over the windows
Begin ==
    /\ pc = "start"
    /\ tokens' = Split(RemoveNewlines(table), TAB)
    /\ courses' = <<>>
    /\ i' = 0
    /\ pc' = "loop"
    /\ UNCHANGED <<table, result, exam_raw, exam_out, weeks_src, weeks_raw, weeks_out>>

\* lines 69-132: one iteration of the loop
ParseRow ==
    /\ pc = "loop"
    /\ HasChunk(tokens, i)
    /\ LET s == LoopBody(courses, i, Chunk(tokens, i))
       IN  /\ courses' = s.courses
           /\ result' = s.result
           /\ IF s.result = Running
              THEN i' = i + 1 /\ pc' = "loop"
              ELSE i' = i /\ pc' = "done"
    /\ UNCHANGED <<table, tokens, exam_raw, exam_out, weeks_src, weeks_raw, weeks_out>>

\* line 133: Ok(courses)
Return ==
    /\ pc = "loop"
    /\ ~HasChunk(tokens, i)
    /\ result' = Returned("Ok")
    /\ pc' = "done"
    /\ UNCHANGED <<table, tokens, i, courses, exam_raw, exam_out,
                   weeks_src, weeks_raw, weeks_out>>

Next == Begin \/ ParseRow \/ Return

Spec == Init /\ [][Next]_vars

\* ------------------------------------------------------------------------
\* parse_exam on its own
\* ------------------------------------------------------------------------

ExamDays == { <<"1", "5">>, <<"0", ArabicThree>> }
ExamMonths == { <<"N", "o", "v">>, <<"M", "a", "y">>, <<"X", "y", "z">>, <<"n", "o", "v">> }
ExamYears == { <<"2", "0", "2", "3">> }
ExamFroms == { <<"0", "9", "0", "0">> }
ExamTos == { <<"1", "1", "0", "0">>, <<"2", "3", "5", "9">> }
\* what follows the time: the closing slash with or without the letters g
\* and m, a week list, or nothing
ExamSuffixes == { <<"/", "g", "m">>, <<"/">>, <<"/", "g", "m">> \o WeeksText2, <<>> }
ExamPrefixes == { <<>>, <<"x", " ">> }

ExamTexts ==
    { pre \o ExamTextOf(d, mo, y, f, t, suf) :
        pre \in ExamPrefixes, d \in ExamDays, mo \in ExamMonths, y \in ExamYears,
        f \in ExamFroms, t \in ExamTos, suf \in ExamSuffixes }

InitExam ==
    /\ pc = "exam"
    /\ exam_raw \in ExamTexts
    /\ exam_out = NotCalled
    /\ table = <<>>
    /\ tokens = <<>>
    /\ i = 0
    /\ courses = <<>>
    /\ result = Running
    /\ weeks_src = NoWeeksSrc
    /\ weeks_raw = <<>>
    /\ weeks_out = NotCalled

CallParseExam ==
    /\ pc = "exam"
    /\ exam_out' = parse_exam(exam_raw)
    /\ pc' = "done"
    /\ UNCHANGED <<table, tokens, i, courses, result, exam_raw,
                   weeks_src, weeks_raw, weeks_out>>

NextExam == CallParseExam

SpecExam == InitExam /\ [][NextExam]_vars

\* ------------------------------------------------------------------------
\* parse_weeks on its own
\* ------------------------------------------------------------------------

\* the week numbers of the inputs: the one-digit ones and a two-digit one
WeekNums == (0..MaxWeek) \cup {12}

\* texts that are neither a number nor a range
BadTokenTexts == << <<" ", "1">>, <<"x">>, <<"1", "-">> >>

WeekTokens ==
    [kind : {"single"}, a : WeekNums, b : {0}]
        \cup [kind : {"range"}, a : WeekNums, b : WeekNums]
        \cup [kind : {"bad"}, a : DOMAIN BadTokenTexts, b : {0}]

\* the decimal digits of a number below 100
DigitsOf(n) ==
    IF n < 10 THEN <<AsciiDigits[n + 1]>>
    ELSE <<AsciiDigits[(n \div 10) + 1], AsciiDigits[(n % 10) + 1]>>

TokenText(t) ==
    CASE t.kind = "single" -> DigitsOf(t.a)
      [] t.kind = "range" -> DigitsOf(t.a) \o <<"-">> \o DigitsOf(t.b)
      [] t.kind = "bad" -> BadTokenTexts[t.a]

\* the marker, nothing, or the marker without its last letter
WeekMarkers == { Marker, <<>>, SubSeq(Marker, 1, Len(Marker) - 1) }

WeekSources ==
    [prefix : { <<>>, <<"/", "g", "m">> }, marker : WeekMarkers,
     toks : SeqsUpTo(WeekTokens, MaxTokens)]

WeeksTextOf(src) ==
    src.prefix \o src.marker \o Join([k \in DOMAIN src.toks |-> TokenText(src.toks[k])], <<",">>)

InitWeeks ==
    /\ pc = "weeks"
    /\ weeks_src \in WeekSources
    /\ weeks_raw = WeeksTextOf(weeks_src)
    /\ weeks_out = NotCalled
    /\ table = <<>>
    /\ tokens = <<>>
    /\ i = 0
    /\ courses = <<>>
    /\ result = Running
    /\ exam_raw = <<>>
    /\ exam_out = NotCalled

CallParseWeeks ==
    /\ pc = "weeks"
    /\ weeks_out' = parse_weeks(weeks_raw)
    /\ pc' = "done"
    /\ UNCHANGED <<table, tokens, i, courses, result, exam_raw, exam_out,
                   weeks_src, weeks_raw>>

NextWeeks == CallParseWeeks

SpecWeeks == InitWeeks /\ [][NextWeeks]_vars

\* ------------------------------------------------------------------------
\* The rows of the table, as the properties below speak of them
\* ------------------------------------------------------------------------

Called == pc \in {"loop", "done"}

\* number of complete rows of the table
NumRows == Len(tokens) \div NUM_COLUMNS

\* the complete rows, numbered from 0, their columns trimmed
Rows == [j \in 0..(NumRows - 1) |-> [c \in 1..NUM_COLUMNS |-> Trim(tokens[j * NUM_COLUMNS + c])]]

\* the rows the loop has taken up: those before window i, and window i
\* itself when the call ended on it
Attempted == {j \in 0..(NumRows - 1) : j < i \/ (j = i /\ pc = "done")}

\* the rows the loop has gone through without an error
Passed == {j \in 0..(NumRows - 1) : j < i}

IsHeaderRow(row) == \A c \in {0, 1, 2, 3, 6, 7} : Col(row, c) # <<>>

HeaderRows(rows, js) == {j \in js : IsHeaderRow(rows[j])}

\* the k-th smallest element of a set of numbers
Kth(S, k) == CHOOSE j \in S : Cardinality({m \in S : m <= j}) = k

\* the rows of js from the k-th header row up to the next header row
Segment(rows, js, k) ==
    LET hs == HeaderRows(rows, js)
        from == Kth(hs, k)
    IN  {j \in js : j >= from /\ \A h \in hs : h > from => j < h}

\* ------------------------------------------------------------------------
\* Properties
\* ------------------------------------------------------------------------

\* a class row of claim C1: class type, a weekday, a period HHMMtoHHMM and
\* column 14 made of 'Teaching Wk' and a valid week list
PlainClassRow(row) ==
    /\ Col(row, 9) # <<>>
    /\ IsOk(ParseWeekday(Col(row, 11)))
    /\ IsOk(parse_period(Col(row, 12)))
    /\ OccursAt(Col(row, 14), Marker, 1)
    /\ IsOk(parse_weeks(Col(row, 14)))

ClassOfRow(row) ==
    Class(Unwrap(ParseWeekday(Col(row, 11))), Unwrap(parse_period(Col(row, 12))),
          Col(row, 13), Col(row, 10), Unwrap(parse_weeks(Col(row, 14))), Col(row, 9))

\* the classes of the rows of a set, in row order
ClassesOf(rows, js) ==
    LET n == Cardinality(js)
    IN  [m \in 1..n |-> ClassOfRow(rows[Kth(js, m)])]

\* C1: a table of complete rows that starts with a header row and goes on
\* with rows that are empty in columns 9 and 14 or class rows with a weekday,
\* a period and a column 14 of the form 'Teaching Wk' + week list is parsed
\* successfully, and every course holds the classes of the class rows between
\* its header and the next one, in row order.
C1_ClassRowsAreAppended ==
    LET rows == Rows
        all == 0..(NumRows - 1)
    IN  (/\ pc = "done"
         /\ Len(tokens) % NUM_COLUMNS = 0
         /\ NumRows >= 1
         /\ IsHeaderRow(rows[0]) /\ Col(rows[0], 9) = <<>> /\ Col(rows[0], 14) = <<>>
         /\ \A j \in 1..(NumRows - 1) :
               \/ PlainClassRow(rows[j])
               \/ Col(rows[j], 9) = <<>> /\ Col(rows[j], 14) = <<>>)
        => /\ result.kind = "Ok"
           /\ Len(courses) = Cardinality(HeaderRows(rows, all))
           /\ \A k \in 1..Len(courses) :
                 courses[k].classes =
                    ClassesOf(rows, {j \in Segment(rows, all, k) : Col(rows[j], 9) # <<>>})

\* C2: a row with exam information that is taken up while there is no course
\* ends the call with the UnknownCourse error.
C2_ExamWithoutCourseFails ==
    LET rows == Rows
    IN  Called =>
          \A j \in Attempted :
             (Col(rows[j], 14) # <<>> /\ HeaderRows(rows, 0..j) = {})
                => (pc = "done" /\ result.kind = "UnknownCourse")

OrphanClassRow(rows, j) == Col(rows[j], 9) # <<>> /\ HeaderRows(rows, 0..j) = {}

FieldsParse(row) ==
    /\ IsOk(ParseWeekday(Col(row, 11)))
    /\ IsOk(parse_period(Col(row, 12)))
    /\ IsOk(parse_weeks(Col(row, 14)))

\* C3 as stated: a row with a class type that is taken up before any header
\* row ends the call with the UnknownCourse error, whatever its weekday,
\* period and week list are.
C3_OrphanClassAlwaysUnknownCourse ==
    LET rows == Rows
    IN  Called =>
          \A j \in Attempted :
             OrphanClassRow(rows, j) => (pc = "done" /\ result.kind = "UnknownCourse")

\* C3 amended: a row with a class type that is taken up before any header row
\* ends the call on that row: with the UnknownCourse error, which carries the
\* class, when its weekday, period and week list parse, and with the
\* field-format error Other or a panic when one of them does not.
C3_OrphanClassFails ==
    LET rows == Rows
    IN  Called =>
          \A j \in Attempted :
             OrphanClassRow(rows, j) =>
                /\ pc = "done"
                /\ j = i
                /\ IF FieldsParse(rows[j])
                   THEN result = UnknownCourse(ClassOfRow(rows[j]))
                   ELSE result.kind \in {"Other", "Panic"}

C3_Witness ==
    /\ pc = "done"
    /\ result.kind = "UnknownCourse"
    /\ i = 1

\* C4 as stated: an input whose number of tokens is not a multiple of 16
\* fails with the MissingValues error of the last, incomplete window.
C4_RaggedAlwaysMissingValues ==
    (pc = "done" /\ Len(tokens) % NUM_COLUMNS # 0)
        => (result.kind = "MissingValues" /\ result.line = NumRows)

\* C4 amended: an input whose number of tokens is not a multiple of 16 never
\* parses successfully; the MissingValues error is raised for the last,
\* incomplete window only, after every complete row has passed, and the
\* tokens of that window make no course; any other outcome is the error or
\* panic of an earlier, complete row.
C4_RaggedFails ==
    LET rows == Rows
    IN  /\ Called => i <= NumRows
        /\ (pc = "done" /\ Len(tokens) % NUM_COLUMNS # 0) =>
              /\ result.kind # "Ok"
              /\ result.kind = "MissingValues" =>
                    /\ i = NumRows
                    /\ result.line = NumRows
                    /\ Len(courses) = Cardinality(HeaderRows(rows, 0..(NumRows - 1)))
              /\ result.kind # "MissingValues" => i < NumRows
        /\ (pc = "done" /\ result.kind = "MissingValues") => Len(tokens) % NUM_COLUMNS # 0

C4_Witness ==
    /\ pc = "done"
    /\ result.kind = "MissingValues"
    /\ Len(tokens) = 2 * NUM_COLUMNS + 8
    /\ result.line = 2

\* C5: the MissingValues error reports the number of the window, the number
\* of tokens of the window as the found count and 16 as the expected count.
C5_MissingValuesReport ==
    (pc = "done" /\ result.kind = "MissingValues")
        => /\ result.line = i
           /\ result.found = Len(tokens) - i * NUM_COLUMNS
           /\ result.expected = NUM_COLUMNS

\* C6: while the call has not failed the courses are, in row order, one per
\* row whose columns 0, 1, 2, 3, 6 and 7 are all non-empty after trimming,
\* with the six fields of that row; rows with one of them empty add none and
\* raise no error; a course whose header row has neither exam nor class and
\* is the last row taken up or is followed by a header row has no class and
\* no exam.
C6_OneCoursePerHeaderRow ==
    LET rows == Rows
        hs == HeaderRows(rows, Passed)
    IN  (Called /\ result.kind \in {"Running", "Ok"}) =>
          /\ Len(courses) = Cardinality(hs)
          /\ \A k \in 1..Cardinality(hs) :
                LET j == Kth(hs, k)
                IN  /\ k <= Len(courses)
                    /\ courses[k].code = Col(rows[j], 0)
                    /\ courses[k].title = Col(rows[j], 1)
                    /\ courses[k].au = Col(rows[j], 2)
                    /\ courses[k].course_type = Col(rows[j], 3)
                    /\ courses[k].index = Col(rows[j], 6)
                    /\ courses[k].status = Col(rows[j], 7)
                    /\ (/\ Col(rows[j], 9) = <<>>
                        /\ Col(rows[j], 14) = <<>>
                        /\ Segment(rows, Passed, k) = {j})
                       => (courses[k].classes = <<>> /\ courses[k].exam = None)

\* two courses of the same code, and between their rows a row that has some
\* but not all of the six fields
C6_Witness ==
    /\ pc = "done"
    /\ result.kind = "Ok"
    /\ Len(courses) = 2
    /\ courses[1].code = courses[2].code
    /\ NumRows = 3
    /\ Col(Rows[1], 0) # <<>>
    /\ ~IsHeaderRow(Rows[1])

\* C7: while the call has not failed the exam of every course is the exam of
\* the last row with exam information among the rows from its header row to
\* the next header row, and no exam if there is no such row.
C7_ExamOfCurrentCourse ==
    LET rows == Rows
    IN  (Called /\ result.kind \in {"Running", "Ok"}) =>
          \A k \in 1..Len(courses) :
             k <= Cardinality(HeaderRows(rows, Passed)) =>
                LET es == {j \in Segment(rows, Passed, k) : Col(rows[j], 14) # <<>>}
                IN  courses[k].exam =
                      IF es = {} THEN None
                      ELSE Some(Unwrap(parse_exam(Col(rows[Kth(es, Cardinality(es))], 14))))

\* the second course got its exam from a row after its header row, and the
\* first course kept the exam of its own
C7_Witness ==
    /\ pc = "done"
    /\ result.kind = "Ok"
    /\ Len(courses) = 2
    /\ NumRows = 3
    /\ Col(Rows[1], 14) = <<>>
    /\ courses[1].exam = Some(Unwrap(parse_exam(ExamText1)))
    /\ courses[2].exam = Some(Unwrap(parse_exam(ExamText2)))

\* the text of s at position k has the form /DD-Mon-YYYY HHMMtoHHMM/
ExamFormAt(s, k) ==
    /\ k + 23 <= Len(s)
    /\ s[k] = "/" /\ s[k + 3] = "-" /\ s[k + 7] = "-" /\ s[k + 12] = " "
    /\ s[k + 17] = "t" /\ s[k + 18] = "o" /\ s[k + 23] = "/"
    /\ \A m \in {1, 2} \cup (8..11) \cup (13..16) \cup (19..22) : IsAsciiDigit(s[k + m])
    /\ IsUpper(s[k + 4]) /\ IsLower(s[k + 5]) /\ IsLower(s[k + 6])

\* C8: parse_exam of a text with a part of the form /DD-Mon-YYYY HHMMtoHHMM/
\* whose month is a month name returns the exam of its day, month, year and
\* times.
C8_ParseExamOfForm ==
    (pc = "done" /\ exam_out # NotCalled) =>
        \A k \in 1..Len(exam_raw) :
           (ExamFormAt(exam_raw, k) /\ IsOk(ParseMonth(SubSeq(exam_raw, k + 4, k + 6))))
              => exam_out = Ok(Exam(TwoDigits(exam_raw, k + 1),
                                    Unwrap(ParseMonth(SubSeq(exam_raw, k + 4, k + 6))),
                                    100 * TwoDigits(exam_raw, k + 8) + TwoDigits(exam_raw, k + 10),
                                    Period(TwoDigits(exam_raw, k + 13), TwoDigits(exam_raw, k + 15),
                                           TwoDigits(exam_raw, k + 19), TwoDigits(exam_raw, k + 21))))

\* the integers from a to b, ascending
RECURSIVE Ascending(_, _)
Ascending(a, b) == IF a > b THEN <<>> ELSE <<a>> \o Ascending(a + 1, b)

\* the weeks of the tokens, one token after the other
RECURSIVE WeeksOfSource(_)
WeeksOfSource(toks) ==
    IF toks = <<>> THEN <<>>
    ELSE (IF Head(toks).kind = "single" THEN <<Head(toks).a>>
          ELSE Ascending(Head(toks).a, Head(toks).b))
         \o WeeksOfSource(Tail(toks))

NumberOrRange(t) == t.kind = "single" \/ (t.kind = "range" /\ t.a <= t.b)

\* C9: parse_weeks of a text with the marker 'Teaching Wk' and then numbers
\* and ranges start-end with start <= end, separated by commas, returns the
\* number of each number and the integers from start to end of each range,
\* ascending, in the order of the tokens, neither sorted nor deduplicated;
\* a text without the marker fails with ParseWeeksError.
C9_ParseWeeksInTokenOrder ==
    (pc = "done" /\ weeks_out # NotCalled) =>
        /\ (/\ weeks_src.marker = Marker
            /\ weeks_src.toks # <<>>
            /\ \A k \in DOMAIN weeks_src.toks : NumberOrRange(weeks_src.toks[k]))
           => weeks_out = Ok(WeeksOfSource(weeks_src.toks))
        /\ weeks_src.marker # Marker => weeks_out = Err("ParseWeeksError")

\* Teaching Wk1-3,2 gives 1, 2, 3, 2
C9_Witness ==
    /\ pc = "done"
    /\ weeks_raw = Marker \o <<"1", "-", "3", ",", "2">>
    /\ weeks_out = Ok(<<1, 2, 3, 2>>)

\* C10: a course that has a class has an exam.
C10_ClassesImplyExam ==
    Called => \A k \in 1..Len(courses) :
                 courses[k].classes # <<>> => courses[k].exam # None

C10_Witness ==
    /\ pc = "done"
    /\ result.kind = "Ok"
    /\ \E k \in 1..Len(courses) : Len(courses[k].classes) = 2 /\ courses[k].exam # None

====
